---- MODULE Spec2Model ----
(***************************************************************************)
(* Histogram computation on a CUDA device (src/src/main.cu) and its test   *)
(* harness (src/tester/tester.cpp).                                        *)
(*                                                                         *)
(* SpecKernel  : one launch of one of the three kernels, thread by thread. *)
(*               A step of a thread is one access to memory that other     *)
(*               threads can see (shared or global), together with the     *)
(*               register-only work that follows it up to the next access. *)
(***************************************************************************)
EXTENDS Integers, Sequences, FiniteSets, TLC

(***************************************************************************)
(* Program constants                                                       *)
(***************************************************************************)
NumLocalBins == 32
elementsPerThread == 12
UCharRange == 256
SizeofInt == 4
blockSize == 1024
saturation == 2048
numSMs == 80

(***************************************************************************)
(* Bounds of the model                                                     *)
(***************************************************************************)
MaxThreads == 2
MaxN == 2
MaxSmallBins == 2
MaxPlanBlocks == 3
MaxPlanSMs == 4
MaxTesterN == 2
MaxStrideDim == 2
MaxStrideTail == 25
MaxStrideBatches == 3

VARIABLES
    N,           \* the sample count: argument N of compute and of the kernels
    kernel,      \* which __global__ function was launched
    numBins,     \* kernel argument numBins
    gridDim,     \* gridDim.x
    blockDim,    \* blockDim.x
    input,       \* the sample buffer, index 0..N-1
    histogram,   \* the global histogram, index 0..numBins-1
    sharedHist,  \* per block: extern __shared__ int sharedHist[]
    localHist,   \* per thread: int localHist[32]
    values,      \* per thread: int values[elementsPerThread]
    base,        \* per thread: the stride loop's base
    loopI,       \* per thread: the running loop's counter i
    pc,          \* per thread: the loop the thread is in
    reads,       \* hierarchical kernel: the reads of the sample buffer, each
                 \* as <<thread, base, slot, index>>
    coop,        \* the iterations made of the cooperative loops, each as
                 \* <<loop, thread, index>>
    oob,         \* accesses made outside the bounds of an array
    fault        \* the kernel was aborted by an illegal access

kernelVars == <<kernel, numBins, gridDim, blockDim, input, histogram,
                sharedHist, localHist, values, base, loopI, pc, reads, coop,
                oob, fault>>

VARIABLES
    hpc,          \* where the host is in solution::compute
    B,            \* argument B of compute
    disk,         \* the ints of the file at input_path
    sol_file,     \* the file at sol_path: whether it exists, and its ints
    input_data,   \* host buffer of N ints
    h_histogram,  \* host buffer of B ints (histogram in compute)
    dmem,         \* the contents of the device buffers d_input, d_histogram
    held,         \* the resources acquired and not released
    streamUsable, \* the handle in stream names a queue
    queue,        \* the operations issued on the stream and not yet executed
    issued,       \* this call's stream operations, in issue order
    executed,     \* this call's stream operations, in execution order
    gridSize,     \* the launch's grid size
    smCount,      \* numSMs in compute: the device's multiProcessorCount
    sticky,       \* the context is in the error state a kernel trap leaves
    heapJunk,     \* what the device heap holds where d_histogram was freed
    env,          \* what fails in this call
    faultsOn,     \* whether calls may meet failures
    ret,          \* how the last call ended
    first         \* the arguments and the result of the first call

hostVars == <<hpc, B, disk, sol_file, input_data, h_histogram, dmem, held,
              streamUsable, queue, issued, executed, gridSize, smCount,
              sticky, heapJunk, env, faultsOn, ret, first>>

VARIABLES
    tpc,          \* where the tester's main is
    argN,         \* N of main: atoi(argv[1])
    argB,         \* B of main: atoi(argv[2])
    inputFiles,   \* the files input-<N>.dat of the temporary directory
    solFiles,     \* the files sol-<N>-<B>.dat of the temporary directory
    t_data,       \* input_data of main
    t_hist,       \* histogram of main
    heapDamaged,  \* a store outside an array hit the heap's bookkeeping
    student,      \* the file at student_sol_path
    stdout,       \* whether -1 and the execution time were printed
    stderr,       \* the diagnostic
    exitStatus,   \* how the process ended
    reused        \* which cache files this run found

testerVars == <<tpc, argN, argB, inputFiles, solFiles, t_data, t_hist,
                heapDamaged, student, stdout, stderr, exitStatus, reused>>

vars == <<N, kernelVars, hostVars, testerVars>>

(***************************************************************************)
(* int                                                                     *)
(***************************************************************************)
\* int arithmetic: 32 bits, two's complement; division truncates
MaxInt32 == 2147483647
MinInt32 == (-MaxInt32) - 1
AddInt32(a, b) ==
    IF b >= 0 /\ a > MaxInt32 - b
    THEN (a - MaxInt32 - 1) + (b - MaxInt32 - 1)
    ELSE IF b < 0 /\ a < MinInt32 - b
         THEN (a + MaxInt32 + 1) + (b + MaxInt32 + 1)
         ELSE a + b
CDiv(a, d) == IF a >= 0 THEN a \div d ELSE -((-a) \div d)

\* a + b leaves the range of int
Overflows(a, b) == (b >= 0 /\ a > MaxInt32 - b) \/ (b < 0 /\ a < MinInt32 - b)

(***************************************************************************)
(* Thread geometry                                                         *)
(***************************************************************************)
Threads == 0 .. (gridDim * blockDim - 1)
blockIdx(th) == th \div blockDim

\* every thread takes itself for thread 0 of its block
FirstThreadIdx(th) == 0

threadIdx(th) == th % blockDim
BlockOf(th) == {o \in Threads : blockIdx(o) = blockIdx(th)}
\* main.cu:52-53
tid(th) == blockIdx(th) * blockDim + threadIdx(th)
stride == blockDim * gridDim

Bins == 0 .. (numBins - 1)

\* const unsigned char* input: an element is read as one unsigned char
ToUChar(v) == v % UCharRange

(***************************************************************************)
(* The sequential reference: tester.cpp:70-75                              *)
(***************************************************************************)
RECURSIVE ReferenceCount(_, _, _, _)
ReferenceCount(hist, data, n, k) ==
    IF k >= n THEN hist
    ELSE ReferenceCount([hist EXCEPT ![data[k]] = @ + 1], data, n, k + 1)

ReferenceCounter(data, n, b) ==
    ReferenceCount([x \in 0 .. (b - 1) |-> 0], data, n, 0)

\* the number of samples equal to bin x
CountOf(data, n, x) == Cardinality({k \in 0 .. (n - 1) : data[k] = x})

(***************************************************************************)
(* Pieces shared by the kernels                                            *)
(***************************************************************************)
\* memory that no store has initialised yet holds whatever was there
UninitValues == {0, 5}

\* a store or an atomic add at index k of an array indexed 0..numBins-1
InBounds(k) == k >= 0 /\ k < numBins

\* __syncthreads(), main.cu:23 and main.cu:49: a thread leaves the barrier
\* once every thread of its block has arrived at it
AtBarrier1(th) == pc[th] = "zero" /\ loopI[th] >= numBins
PastBarrier1(th) == pc[th] \in {"loop", "classify", "fold", "reduce", "done"}
\* no barrier: a thread goes on without waiting for its block
Barrier1Absent(th) == TRUE

Barrier1Open(th) == \A o \in BlockOf(th) : AtBarrier1(o) \/ PastBarrier1(o)

\* no private counter is found to be > 0
NoNonZero(lh, k) == NumLocalBins

RECURSIVE NextNonZero(_, _)
\* main.cu:90-91: the next private counter from slot k on that is > 0
NextNonZero(lh, k) ==
    IF k >= NumLocalBins THEN NumLocalBins
    ELSE IF lh[k] > 0 THEN k ELSE NextNonZero(lh, k + 1)

\* __syncthreads(), main.cu:28 and main.cu:96
AtBarrier2(th) ==
    \/ kernel = "shared" /\ pc[th] = "loop" /\ loopI[th] >= N
    \/ kernel = "optimized" /\ pc[th] = "fold"
          /\ NextNonZero(localHist[th], loopI[th]) = NumLocalBins
PastBarrier2(th) == pc[th] \in {"reduce", "done"}
Barrier2Open(th) == \A o \in BlockOf(th) : AtBarrier2(o) \/ PastBarrier2(o)

\* where a thread stands once its cooperative loop counter is j
AfterReduce(j) == IF j < numBins THEN "reduce" ELSE "done"

\* for (i = threadIdx.x; i < numBins; i += blockDim.x) sharedHist[i] = 0;
ZeroStore(th) ==
    /\ ~fault
    /\ pc[th] = "zero"
    /\ loopI[th] < numBins
    /\ sharedHist' = [sharedHist EXCEPT ![blockIdx(th)][loopI[th]] = 0]
    /\ coop' = coop \cup {<<"zero", th, loopI[th]>>}
    /\ loopI' = [loopI EXCEPT ![th] = @ + blockDim]
    /\ UNCHANGED <<hostVars, testerVars, reads, kernel, N, numBins, gridDim, blockDim, input, histogram,
                   localHist, values, base, pc, oob, fault>>

\* the second barrier, then the start of the final loop: i = threadIdx.x
LeaveBarrier2(th) ==
    /\ ~fault
    /\ AtBarrier2(th)
    /\ Barrier2Open(th)
    /\ loopI' = [loopI EXCEPT ![th] = threadIdx(th)]
    /\ pc' = [pc EXCEPT ![th] = AfterReduce(threadIdx(th))]
    /\ UNCHANGED <<hostVars, testerVars, coop, reads, kernel, N, numBins, gridDim, blockDim, input, histogram,
                   sharedHist, localHist, values, base, oob, fault>>

\* one iteration of the final loop: read the shared bin, add it to the
\* global bin when it is > 0
ReduceStep(th) ==
    /\ ~fault
    /\ pc[th] = "reduce"
    /\ loopI[th] < numBins
    /\ LET val == sharedHist[blockIdx(th)][loopI[th]] IN
          histogram' = IF val > 0
                       THEN [histogram EXCEPT ![loopI[th]] = @ + val]
                       ELSE histogram
    /\ coop' = coop \cup {<<"reduce", th, loopI[th]>>}
    /\ loopI' = [loopI EXCEPT ![th] = @ + blockDim]
    /\ pc' = [pc EXCEPT ![th] = AfterReduce(loopI[th] + blockDim)]
    /\ UNCHANGED <<hostVars, testerVars, reads, kernel, N, numBins, gridDim, blockDim, input,
                   sharedHist, localHist, values, base, oob, fault>>

(***************************************************************************)
(* computeHistogramNaive, main.cu:10-15                                    *)
(***************************************************************************)
NaiveThread(th) ==
    /\ kernel = "naive"
    /\ ~fault
    /\ pc[th] = "start"
    /\ LET idx == tid(th) IN
          IF idx < N
          THEN LET v == ToUChar(input[idx]) IN
                  IF InBounds(v)
                  THEN /\ histogram' = [histogram EXCEPT ![v] = @ + 1]
                       /\ UNCHANGED <<oob, fault>>
                  ELSE /\ oob' = oob \cup {<<"histogram", v>>}
                       /\ fault' \in BOOLEAN
                       /\ UNCHANGED histogram
          ELSE UNCHANGED <<histogram, oob, fault>>
    /\ pc' = [pc EXCEPT ![th] = "done"]
    /\ UNCHANGED <<hostVars, testerVars, coop, reads, kernel, N, numBins, gridDim, blockDim, input,
                   sharedHist, localHist, values, base, loopI>>

(***************************************************************************)
(* computeHistogramShared, main.cu:18-35                                   *)
(***************************************************************************)
SharedZeroInit(th) == kernel = "shared" /\ ZeroStore(th)

\* the first barrier, then the start of the grid-stride loop
SharedBarrier1(th) ==
    /\ kernel = "shared"
    /\ ~fault
    /\ AtBarrier1(th)
    /\ Barrier1Open(th)
    /\ loopI' = [loopI EXCEPT ![th] = tid(th)]
    /\ pc' = [pc EXCEPT ![th] = "loop"]
    /\ UNCHANGED <<hostVars, testerVars, coop, reads, kernel, N, numBins, gridDim, blockDim, input, histogram,
                   sharedHist, localHist, values, base, oob, fault>>

\* atomicAdd(&sharedHist[input[i]], 1)
SharedAccumulate(th) ==
    /\ kernel = "shared"
    /\ ~fault
    /\ pc[th] = "loop"
    /\ loopI[th] < N
    /\ LET v == ToUChar(input[loopI[th]]) IN
          IF InBounds(v)
          THEN /\ sharedHist' = [sharedHist EXCEPT ![blockIdx(th)][v] = @ + 1]
               /\ UNCHANGED <<oob, fault>>
          ELSE /\ oob' = oob \cup {<<"sharedHist", v>>}
               /\ fault' \in BOOLEAN
               /\ UNCHANGED sharedHist
    /\ loopI' = [loopI EXCEPT ![th] = @ + stride]
    /\ UNCHANGED <<hostVars, testerVars, coop, reads, kernel, N, numBins, gridDim, blockDim, input, histogram,
                   localHist, values, base, pc>>

SharedBarrier2(th) == kernel = "shared" /\ LeaveBarrier2(th)

SharedReduce(th) == kernel = "shared" /\ ReduceStep(th)

(***************************************************************************)
(* computeHistogramOptimized, main.cu:38-105                               *)
(***************************************************************************)
OptZeroInit(th) == kernel = "optimized" /\ ZeroStore(th)

\* the filter without its upper bound
InRangeNoUpperBound(value) == value >= 0

\* main.cu:78: the filter on a prefetched value
InRange(value) == value >= 0 /\ value < numBins

\* every value that passed the filter goes to a private counter
UsesRegisterAlways(value) == TRUE

\* main.cu:79: the private counters take the values below 32
UsesRegister(value) == value < NumLocalBins

\* the slots of a batch
Slots == 0 .. (elementsPerThread - 1)

\* values[] outside a batch
NoValues == [k \in Slots |-> -1]

\* main.cu:66: int idx = base + i * stride, the low 32 bits of the sum
SlotIndex(b, k) == AddInt32(b, k * stride)

\* main.cu:67: idx < N. When base + i * stride leaves the range of int the
\* behaviour is undefined: the build compares the low 32 bits of the sum, or
\* (wide) it carries the sum in a 64-bit register, where it is > N
Fetched(b, k, wide) ==
    IF Overflows(b, k * stride) THEN ~wide ELSE b + k * stride < N

\* main.cu:59: base += stride * elementsPerThread, with the same two outcomes
\* when the sum leaves the range of int; a sum carried in 64 bits is > N
NextBase(b, wide) ==
    IF Overflows(b, stride * elementsPerThread) /\ wide THEN MaxInt32
    ELSE AddInt32(b, stride * elementsPerThread)

\* main.cu:65-72: the batch of the thread whose base is b
Prefetch(b, wide) ==
    [k \in Slots |->
        IF Fetched(b, k, wide) THEN input[SlotIndex(b, k)] ELSE -1]

\* the reads that the prefetch of thread th makes
BatchReads(th, b, wide) ==
    {<<th, b, k, SlotIndex(b, k)>> : k \in {j \in Slots : Fetched(b, j, wide)}}

RECURSIVE LocalRun(_, _, _)
\* main.cu:76-85 from slot k on, as far as the values are dropped or counted
\* in a private counter: it stops at the slot whose value goes to sharedHist
LocalRun(lh, vals, k) ==
    IF k >= elementsPerThread THEN [hist |-> lh, next |-> k]
    ELSE LET value == vals[k] IN
            IF InRange(value)
            THEN IF UsesRegister(value)
                 THEN LocalRun([lh EXCEPT ![value] = @ + 1], vals, k + 1)
                 ELSE [hist |-> lh, next |-> k]
            ELSE LocalRun(lh, vals, k + 1)

\* main.cu:59: the loop test with base = b
AfterBatch(b) == IF b < N THEN "loop" ELSE "fold"

\* the thread goes on from slot k of the batch vals: the register-only slots
\* are processed, and the batch ends (base += stride * elementsPerThread) or
\* the thread stands before an atomicAdd on sharedHist
Advance(th, vals, k, wide) ==
    LET r == LocalRun(localHist[th], vals, k) IN
    /\ localHist' = [localHist EXCEPT ![th] = r.hist]
    /\ IF r.next < elementsPerThread
       THEN /\ values' = [values EXCEPT ![th] = vals]
            /\ loopI' = [loopI EXCEPT ![th] = r.next]
            /\ pc' = [pc EXCEPT ![th] = "classify"]
            /\ UNCHANGED base
       ELSE /\ values' = [values EXCEPT ![th] = NoValues]
            /\ loopI' = [loopI EXCEPT ![th] = 0]
            /\ base' = [base EXCEPT ![th] = NextBase(@, wide)]
            /\ pc' = [pc EXCEPT ![th] = AfterBatch(NextBase(base[th], wide))]

\* the first barrier, then tid, stride and the first loop test
OptBarrier1(th) ==
    /\ kernel = "optimized"
    /\ ~fault
    /\ AtBarrier1(th)
    /\ Barrier1Open(th)
    /\ base' = [base EXCEPT ![th] = tid(th)]
    /\ loopI' = [loopI EXCEPT ![th] = 0]
    /\ pc' = [pc EXCEPT ![th] = AfterBatch(tid(th))]
    /\ UNCHANGED <<hostVars, testerVars, coop, reads, kernel, N, numBins, gridDim, blockDim, input, histogram,
                   sharedHist, localHist, values, oob, fault>>

\* main.cu:61-72, and the slots of the batch that need no shared memory
OptFetch(th) ==
    /\ kernel = "optimized"
    /\ ~fault
    /\ pc[th] = "loop"
    /\ base[th] < N
    /\ \E wide \in BOOLEAN :
          /\ reads' = reads \cup BatchReads(th, base[th], wide)
          /\ Advance(th, Prefetch(base[th], wide), 0, wide)
    /\ UNCHANGED <<hostVars, testerVars, coop, kernel, N, numBins, gridDim, blockDim, input, histogram,
                   sharedHist, oob, fault>>

\* main.cu:82: atomicAdd(&sharedHist[value], 1), and the slots after it
OptClassifyShared(th) ==
    /\ kernel = "optimized"
    /\ ~fault
    /\ pc[th] = "classify"
    /\ LET value == values[th][loopI[th]] IN
          IF InBounds(value)
          THEN /\ sharedHist' =
                     [sharedHist EXCEPT ![blockIdx(th)][value] = @ + 1]
               /\ UNCHANGED <<oob, fault>>
          ELSE /\ oob' = oob \cup {<<"sharedHist", value>>}
               /\ fault' \in BOOLEAN
               /\ UNCHANGED sharedHist
    /\ \E wide \in BOOLEAN : Advance(th, values[th], loopI[th] + 1, wide)
    /\ UNCHANGED <<hostVars, testerVars, coop, reads, kernel, N, numBins, gridDim, blockDim, input, histogram>>

\* main.cu:90-94: atomicAdd(&sharedHist[i], localHist[i]) for the next
\* private counter that is > 0
OptFoldLocal(th) ==
    /\ kernel = "optimized"
    /\ ~fault
    /\ pc[th] = "fold"
    /\ LET j == NextNonZero(localHist[th], loopI[th]) IN
          /\ j < NumLocalBins
          /\ IF InBounds(j)
             THEN /\ sharedHist' = [sharedHist EXCEPT
                         ![blockIdx(th)][j] = @ + localHist[th][j]]
                  /\ UNCHANGED <<oob, fault>>
             ELSE /\ oob' = oob \cup {<<"sharedHist", j>>}
                  /\ fault' \in BOOLEAN
                  /\ UNCHANGED sharedHist
          /\ loopI' = [loopI EXCEPT ![th] = j + 1]
    /\ UNCHANGED <<hostVars, testerVars, coop, reads, kernel, N, numBins, gridDim, blockDim, input, histogram,
                   localHist, values, base, pc>>

OptBarrier2(th) == kernel = "optimized" /\ LeaveBarrier2(th)

OptReduce(th) == kernel = "optimized" /\ ReduceStep(th)

(***************************************************************************)
(* The host outside a call of solution::compute                            *)
(***************************************************************************)
\* a path at which there is no file
NoFile == [exists |-> FALSE, data |-> << >>]

\* the sample counts and the bin counts of the tester's runs: N < 0 makes
\* make_unique<int[]>(N) throw; B is as in the calls of compute
TesterCounts == {-1} \cup (1 .. MaxTesterN)
TesterBins == 1 .. (MaxSmallBins + 1)

NoOutput == [minus1 |-> FALSE, time |-> FALSE]
NoDiagnostic == [kind |-> "none"]

\* no process of the tester has run, and the temporary directory is empty
TesterIdle ==
    /\ tpc = "idle"
    /\ argN = 0
    /\ argB = 0
    /\ inputFiles = [n \in TesterCounts |-> NoFile]
    /\ solFiles = [k \in TesterCounts \X TesterBins |-> NoFile]
    /\ t_data = << >>
    /\ t_hist = << >>
    /\ heapDamaged = FALSE
    /\ student = NoFile
    /\ stdout = NoOutput
    /\ stderr = NoDiagnostic
    /\ exitStatus = "none"
    /\ reused = {}

NoFirst == [set |-> FALSE, n |-> 0, b |-> 0, out |-> << >>, others |-> FALSE]

HostIdle(content, faults) ==
    /\ hpc = "idle"
    /\ B = 0
    /\ disk = content
    /\ sol_file = [exists |-> FALSE, data |-> << >>]
    /\ input_data = << >>
    /\ h_histogram = << >>
    /\ dmem = [input |-> << >>, hist |-> << >>]
    /\ held = {}
    /\ streamUsable = FALSE
    /\ queue = << >>
    /\ issued = << >>
    /\ executed = << >>
    /\ gridSize = 0
    /\ smCount = numSMs
    /\ sticky = FALSE
    /\ heapJunk = << >>
    /\ env = "none"
    /\ faultsOn = faults
    /\ ret = "none"
    /\ first = NoFirst
    /\ TesterIdle

(***************************************************************************)
(* One launch                                                              *)
(***************************************************************************)
\* sample values around the ends of the bin range
SampleValues(b) == {-1, 0, b - 1, b}

\* two long sample arrays: the values -1, 0, .., b in a cycle, upwards from -1
\* and downwards from b
Ramp(n, b, up) ==
    [k \in 0 .. (n - 1) |->
        IF up THEN (k % (b + 2)) - 1 ELSE b - (k % (b + 2))]

\* bin counts: the small ones, the first one with a bin that no private
\* counter covers, the first one with a bin that no unsigned char reaches
BinChoices(g, t) ==
    (0 .. MaxSmallBins)
        \cup (IF g = 1 THEN {NumLocalBins + 1} ELSE {})
        \cup (IF g * t = 1 THEN {UCharRange + 1} ELSE {})

\* a sample count that gives thread 0 a second batch
LongN(g, t) == g * t * elementsPerThread + 1

InitKernel ==
    /\ kernel \in {"naive", "shared", "optimized"}
    /\ \E g \in 1 .. MaxThreads, t \in 1 .. MaxThreads :
          /\ g * t <= MaxThreads
          /\ gridDim = g
          /\ blockDim = t
    /\ numBins \in BinChoices(gridDim, blockDim)
    /\ \/ /\ N \in 0 .. MaxN
          \* the naive kernel is launched with one thread per sample
          /\ kernel = "naive" => N <= gridDim * blockDim
          /\ input \in [0 .. (N - 1) -> SampleValues(numBins)]
       \/ /\ kernel # "naive"
          /\ N = LongN(gridDim, blockDim)
          /\ \E up \in BOOLEAN : input = Ramp(N, numBins, up)
    \* cudaMemsetAsync(d_histogram, 0, ...) precedes the launch
    /\ histogram = [x \in Bins |-> 0]
    /\ \E junk \in UninitValues :
          /\ kernel = "naive" => junk = 0
          /\ sharedHist = [b \in 0 .. (gridDim - 1) |-> [x \in Bins |-> junk]]
    /\ localHist = [th \in Threads |-> [k \in 0 .. (NumLocalBins - 1) |-> 0]]
    /\ values = [th \in Threads |-> NoValues]
    /\ base = [th \in Threads |-> 0]
    /\ loopI = [th \in Threads |-> IF kernel = "naive" THEN 0 ELSE threadIdx(th)]
    /\ pc = [th \in Threads |-> IF kernel = "naive" THEN "start" ELSE "zero"]
    /\ reads = {}
    /\ coop = {}
    /\ oob = {}
    /\ fault = FALSE
    /\ HostIdle(<< >>, FALSE)

NextKernel ==
    \/ \E th \in Threads : NaiveThread(th)
    \/ \E th \in Threads : SharedZeroInit(th)
    \/ \E th \in Threads : SharedBarrier1(th)
    \/ \E th \in Threads : SharedAccumulate(th)
    \/ \E th \in Threads : SharedBarrier2(th)
    \/ \E th \in Threads : SharedReduce(th)
    \/ \E th \in Threads : OptZeroInit(th)
    \/ \E th \in Threads : OptBarrier1(th)
    \/ \E th \in Threads : OptFetch(th)
    \/ \E th \in Threads : OptClassifyShared(th)
    \/ \E th \in Threads : OptFoldLocal(th)
    \/ \E th \in Threads : OptBarrier2(th)
    \/ \E th \in Threads : OptReduce(th)

SpecKernel == InitKernel /\ [][NextKernel]_vars

\* every thread of the launch has returned
KernelDone == \A th \in Threads : pc[th] = "done"

(***************************************************************************)
(* The stride loop of one thread of computeHistogramOptimized on a long    *)
(* sample buffer, main.cu:52-94. The buffer is not held: every sample is   *)
(* 0, and numBins = 1                                                      *)
(***************************************************************************)
\* the grid and block sizes: the small ones, and the grid of compute on 80
\* multiprocessors for a long buffer (main.cu:168)
StrideGeometries ==
    {<<g, t>> : g \in 1 .. MaxStrideDim, t \in 1 .. MaxStrideDim}
        \cup {<<(numSMs * saturation) \div blockSize, blockSize>>}

\* sample counts: the last ones an int holds, in steps of the stride str
StrideCounts(str) == {MaxInt32 - o * str : o \in 0 .. MaxStrideTail}

\* the last value below n that the base of thread t takes in the loop of
\* main.cu:59
LastBase(t, n, str) ==
    t + ((n - 1 - t) \div (str * elementsPerThread)) * str * elementsPerThread

InitStride ==
    /\ kernel = "optimized"
    /\ numBins = 1
    /\ \E geo \in StrideGeometries :
          /\ gridDim = geo[1]
          /\ blockDim = geo[2]
    /\ N \in StrideCounts(gridDim * blockDim)
    /\ input = << >>
    /\ histogram = [x \in Bins |-> 0]
    /\ \E th \in {0, gridDim * blockDim - 1} :
          \* the thread is in its last batch or in the one before it
          /\ \E back \in 0 .. 1 :
                base = [t \in {th} |->
                           LastBase(th, N, stride)
                               - back * stride * elementsPerThread]
          /\ sharedHist = [b \in {blockIdx(th)} |-> [x \in Bins |-> 0]]
          /\ localHist =
                 [t \in {th} |-> [k \in 0 .. (NumLocalBins - 1) |-> 0]]
          /\ values = [t \in {th} |-> NoValues]
          /\ loopI = [t \in {th} |-> 0]
          /\ pc = [t \in {th} |-> "loop"]
    /\ reads = {}
    /\ coop = {}
    /\ oob = {}
    /\ fault = FALSE
    /\ HostIdle(<< >>, FALSE)

\* main.cu:59-86 for one batch. A read at an index outside [0, N) is
\* outside the buffer: it traps or it yields any int, which the filter of
\* main.cu:78 drops (junk = 0) or counts
StrideBatch(th) ==
    /\ kernel = "optimized"
    /\ ~fault
    /\ pc[th] = "loop"
    /\ base[th] < N
    \* the thread is followed for MaxStrideBatches batches
    /\ Cardinality({r[2] : r \in reads}) < MaxStrideBatches
    /\ \E wide \in BOOLEAN :
          LET batch == BatchReads(th, base[th], wide)
              inside == {r \in batch : r[4] >= 0 /\ r[4] < N}
              outside == batch \ inside
          IN  /\ reads' = reads \cup batch
              /\ oob' = oob \cup {<<"input", r[4]>> : r \in outside}
              /\ fault' \in (IF outside = {} THEN {FALSE} ELSE BOOLEAN)
              /\ \E junk \in {0, Cardinality(outside)} :
                    localHist' = [localHist EXCEPT
                                     ![th][0] = @ + Cardinality(inside) + junk]
              /\ base' = [base EXCEPT ![th] = NextBase(@, wide)]
              /\ pc' = [pc EXCEPT ![th] = AfterBatch(NextBase(base[th], wide))]
    /\ UNCHANGED <<hostVars, testerVars, coop, kernel, N, numBins, gridDim, blockDim,
                   input, histogram, sharedHist, values, loopI>>

\* the launch has one thread only, which is the one that is followed
WholeLaunch == DOMAIN pc = Threads

NextStride ==
    \/ \E th \in DOMAIN pc : StrideBatch(th)
    \/ \E th \in DOMAIN pc : OptFoldLocal(th)
    \/ \E th \in DOMAIN pc : WholeLaunch /\ OptBarrier2(th)
    \/ \E th \in DOMAIN pc : WholeLaunch /\ OptReduce(th)

SpecStride == InitStride /\ [][NextStride]_vars

\* the threads that InitStride follows
StrideThreads == {0} \cup {geo[1] * geo[2] - 1 : geo \in StrideGeometries}

\* a step of the followed thread th
StrideThread(th) ==
    /\ th \in DOMAIN pc
    /\ \/ StrideBatch(th)
       \/ OptFoldLocal(th)
       \/ WholeLaunch /\ OptBarrier2(th)
       \/ WholeLaunch /\ OptReduce(th)

\* the device goes on executing a thread that is not waiting at a barrier
SpecStrideFair ==
    SpecStride /\ \A th \in StrideThreads : WF_vars(StrideThread(th))

(***************************************************************************)
(* The hierarchical kernel and compute under fair scheduling               *)
(***************************************************************************)
\* a step of thread th of the hierarchical kernel
OptThread(th) ==
    /\ th \in DOMAIN pc
    /\ \/ OptZeroInit(th)
       \/ OptBarrier1(th)
       \/ OptFetch(th)
       \/ OptClassifyShared(th)
       \/ OptFoldLocal(th)
       \/ OptBarrier2(th)
       \/ OptReduce(th)

SpecKernelFair ==
    /\ InitKernel
    /\ kernel = "optimized"
    /\ [][NextKernel]_vars
    /\ \A th \in 0 .. (MaxThreads - 1) : WF_vars(OptThread(th))


(***************************************************************************)
(* The hierarchical kernel as one stream operation: what a launch of       *)
(* grid x block threads adds to the histogram hist                         *)
(***************************************************************************)
RECURSIVE BatchIndices(_, _, _)
\* main.cu:59-72: the sample indices read by a thread whose base starts at b
BatchIndices(b, n, str) ==
    IF b >= n THEN {}
    ELSE {idx \in {b + k * str : k \in Slots} : idx < n}
            \cup BatchIndices(b + str * elementsPerThread, n, str)

\* main.cu:76-94: what one thread adds to bin x of its block's sharedHist
ThreadCount(t, x, data, n, str) ==
    Cardinality({idx \in BatchIndices(t, n, str) : data[idx] = x})

RECURSIVE SumThreads(_, _, _, _, _, _)
\* the threads lo .. hi-1 together
SumThreads(lo, hi, x, data, n, str) ==
    IF lo >= hi THEN 0
    ELSE ThreadCount(lo, x, data, n, str)
            + SumThreads(lo + 1, hi, x, data, n, str)

\* bin x of the sharedHist of block blk at the second barrier; a thread whose
\* tid is >= n fails the loop test at once
BlockCount(blk, x, data, n, grid, block) ==
    LET lo == blk * block
        hi == IF lo + block < n THEN lo + block ELSE n
    IN  SumThreads(lo, hi, x, data, n, grid * block)

RECURSIVE SumBlocks(_, _, _, _, _, _)
\* main.cu:99-104 over the blocks 0 .. blk-1
SumBlocks(blk, x, data, n, grid, block) ==
    IF blk <= 0 THEN 0
    ELSE LET val == BlockCount(blk - 1, x, data, n, grid, block) IN
            (IF val > 0 THEN val ELSE 0)
                + SumBlocks(blk - 1, x, data, n, grid, block)

computeHistogramOptimized(data, hist, n, b, grid, block) ==
    [x \in 0 .. (b - 1) |-> hist[x] + SumBlocks(grid, x, data, n, grid, block)]

(***************************************************************************)
(* solution::compute, main.cu:119-196                                      *)
(***************************************************************************)
\* the values in the input file
FileValues == {-1, 0, 1}

\* what may fail in a call
FaultKinds == {"input_file", "host_alloc", "malloc_input",
               "malloc_histogram", "stream_create", "host_register"}

\* the device's limit on a block's shared memory, in bytes
sharedMemPerBlock == MaxSmallBins * SizeofInt

Zeros(n) == [k \in 0 .. (n - 1) |-> 0]

\* the ints of a host buffer of n ints, as they are in a file
ToFile(buf, n) == [k \in 1 .. n |-> buf[k - 1]]

\* the file is opened without truncation
OpenOutputAppend(file) == [exists |-> TRUE, data |-> file.data]

\* main.cu:121: std::ofstream sol_fs(sol_path, std::ios::binary)
OpenOutput(file) == [exists |-> TRUE, data |-> << >>]

\* main.cu:125-127: make_unique<int[]>(n) holds zeros; read() stores the
\* ints the file has
ReadInput(n, present) ==
    [k \in 0 .. (n - 1) |->
        IF present /\ k + 1 <= Len(disk) THEN disk[k + 1] ELSE 0]

\* device memory as cudaMalloc hands it out
Fresh(n, junk) == [k \in 0 .. (n - 1) |-> IF k \in DOMAIN junk THEN junk[k] ELSE 0]

\* (n + d - 1) / d, n >= 0, d >= 1. When n + d - 1 leaves the range of int
\* the behaviour is undefined: the build either keeps the low 32 bits of the
\* sum, or (wide) carries the sum in a 64-bit register
RoundUpDiv(n, d, wide) ==
    IF Overflows(n, d - 1) /\ wide
    THEN (n \div d) + (IF n % d = 0 THEN 0 ELSE 1)
    ELSE CDiv(AddInt32(AddInt32(n, d), -1), d)

\* main.cu:168-172, with s the number of multiprocessors
PlanGrid(n, s, wide) ==
    LET occupancy == RoundUpDiv(s * saturation, blockSize, wide)
        maxGridSize == RoundUpDiv(n, blockSize * elementsPerThread, wide)
    IN  IF occupancy > maxGridSize THEN maxGridSize ELSE occupancy

\* the stream does not keep the order of issue
NextOpLast(q) == Len(q)

\* the operation of the stream that executes next
NextOp(q) == 1

\* the memset leaves the buffer as it is
MemsetKeeps(buf, n) == buf

\* cudaMemsetAsync(d_histogram, 0, B * sizeof(int), stream)
MemsetEffect(buf, n) == Zeros(n)

Without(q, k) == [j \in 1 .. (Len(q) - 1) |-> IF j < k THEN q[j] ELSE q[j + 1]]

\* a host buffer of n ints is issued on the stream: op
Issue(op, valid) ==
    IF valid
    THEN /\ queue' = Append(queue, op)
         /\ issued' = Append(issued, op)
    ELSE UNCHANGED <<queue, issued>>

\* main.cu:120-133
ComputeBegin(n, b, e) ==
    /\ hpc = "idle"
    /\ e = "none" \/ faultsOn
    /\ N' = n
    /\ B' = b
    /\ env' = e
    /\ sol_file' = OpenOutput(sol_file)
    /\ issued' = << >>
    /\ executed' = << >>
    /\ gridSize' = 0
    /\ IF e = "host_alloc"
       THEN \* std::bad_alloc leaves compute
            /\ hpc' = "idle"
            /\ ret' = "thrown"
            /\ input_data' = << >>
            /\ h_histogram' = << >>
       ELSE /\ hpc' = "malloc"
            /\ ret' = "none"
            /\ input_data' = ReadInput(n, e # "input_file")
            /\ h_histogram' = Zeros(b)
    /\ UNCHANGED <<kernelVars, disk, dmem, held, streamUsable, queue, sticky,
                   heapJunk, faultsOn, smCount, testerVars, first>>

\* main.cu:136-139
DeviceMalloc ==
    /\ hpc = "malloc"
    /\ LET okInput == ~sticky /\ env # "malloc_input" /\ N > 0
           okHist == ~sticky /\ env # "malloc_histogram" /\ B > 0
       IN  held' = held \cup (IF okInput THEN {"d_input"} ELSE {})
                        \cup (IF okHist THEN {"d_histogram"} ELSE {})
    /\ dmem' = [input |-> Zeros(N), hist |-> Fresh(B, heapJunk)]
    /\ hpc' = "stream"
    /\ UNCHANGED <<N, kernelVars, B, disk, sol_file, input_data, h_histogram,
                   streamUsable, queue, issued, executed, gridSize, sticky,
                   heapJunk, env, faultsOn, smCount, testerVars, ret, first>>

\* main.cu:142-143; a cudaStream_t that cudaStreamCreate did not set holds
\* what the stack held, which may be 0, the default stream
StreamCreate ==
    /\ hpc = "stream"
    /\ IF ~sticky /\ env # "stream_create"
       THEN /\ held' = held \cup {"stream"}
            /\ streamUsable' = TRUE
       ELSE /\ held' = held
            /\ streamUsable' \in BOOLEAN
    /\ hpc' = "register"
    /\ UNCHANGED <<N, kernelVars, B, disk, sol_file, input_data, h_histogram,
                   dmem, queue, issued, executed, gridSize, sticky, heapJunk,
                   env, faultsOn, smCount, testerVars, ret, first>>

\* main.cu:146
HostRegister ==
    /\ hpc = "register"
    /\ held' = IF ~sticky /\ env # "host_register"
               THEN held \cup {"pinned"} ELSE held
    /\ hpc' = "upload"
    /\ UNCHANGED <<N, kernelVars, B, disk, sol_file, input_data, h_histogram,
                   dmem, streamUsable, queue, issued, executed, gridSize,
                   sticky, heapJunk, env, faultsOn, smCount, testerVars, ret, first>>

\* main.cu:149
MemcpyAsyncToDevice ==
    /\ hpc = "upload"
    /\ Issue("upload", streamUsable /\ ~sticky /\ (N = 0 \/ "d_input" \in held))
    /\ hpc' = "memset"
    /\ UNCHANGED <<N, kernelVars, B, disk, sol_file, input_data, h_histogram,
                   dmem, held, streamUsable, executed, gridSize, sticky,
                   heapJunk, env, faultsOn, smCount, testerVars, ret, first>>

\* main.cu:150
MemsetAsync ==
    /\ hpc = "memset"
    /\ Issue("memset", streamUsable /\ ~sticky /\ (B = 0 \/ "d_histogram" \in held))
    /\ hpc' = "launch"
    /\ UNCHANGED <<N, kernelVars, B, disk, sol_file, input_data, h_histogram,
                   dmem, held, streamUsable, executed, gridSize, sticky,
                   heapJunk, env, faultsOn, smCount, testerVars, ret, first>>

\* the launch is accepted: a grid of at least one block, and a shared-memory
\* request within the device's limit
LaunchAccepted(grid, b) ==
    /\ streamUsable
    /\ ~sticky
    /\ grid >= 1
    /\ b * SizeofInt <= sharedMemPerBlock

\* main.cu:153-176
Launch ==
    /\ hpc = "launch"
    /\ \E wide \in BOOLEAN :
          /\ gridSize' = PlanGrid(N, smCount, wide)
          /\ Issue("kernel", LaunchAccepted(PlanGrid(N, smCount, wide), B))
    /\ hpc' = "sync1"
    /\ UNCHANGED <<N, kernelVars, B, disk, sol_file, input_data, h_histogram,
                   dmem, held, streamUsable, executed, sticky, heapJunk, env,
                   faultsOn, smCount, testerVars, ret, first>>

\* main.cu:179: cudaStreamSynchronize returns when the stream is drained
StreamSynchronize1 ==
    /\ hpc = "sync1"
    /\ queue = << >>
    /\ hpc' = "download"
    /\ UNCHANGED <<N, kernelVars, B, disk, sol_file, input_data, h_histogram,
                   dmem, held, streamUsable, queue, issued, executed, gridSize,
                   sticky, heapJunk, env, faultsOn, smCount, testerVars, ret, first>>

\* main.cu:182
MemcpyAsyncToHost ==
    /\ hpc = "download"
    /\ Issue("download",
             streamUsable /\ ~sticky /\ (B = 0 \/ "d_histogram" \in held))
    /\ hpc' = "sync2"
    /\ UNCHANGED <<N, kernelVars, B, disk, sol_file, input_data, h_histogram,
                   dmem, held, streamUsable, executed, gridSize, sticky,
                   heapJunk, env, faultsOn, smCount, testerVars, ret, first>>

\* main.cu:183
StreamSynchronize2 ==
    /\ hpc = "sync2"
    /\ queue = << >>
    /\ hpc' = "cleanup"
    /\ UNCHANGED <<N, kernelVars, B, disk, sol_file, input_data, h_histogram,
                   dmem, held, streamUsable, queue, issued, executed, gridSize,
                   sticky, heapJunk, env, faultsOn, smCount, testerVars, ret, first>>

\* main.cu:185-189; in the error state a kernel trap leaves, every call of
\* the runtime returns that error and does nothing
Cleanup ==
    /\ hpc = "cleanup"
    /\ held' = IF sticky THEN held ELSE {}
    /\ heapJunk' = IF ~sticky /\ "d_histogram" \in held THEN dmem.hist
                   ELSE heapJunk
    /\ dmem' = [input |-> << >>, hist |-> << >>]
    /\ streamUsable' = FALSE
    /\ hpc' = "write"
    /\ UNCHANGED <<N, kernelVars, B, disk, sol_file, input_data, h_histogram,
                   queue, issued, executed, gridSize, sticky, env, faultsOn, smCount, testerVars,
                   ret, first>>

\* main.cu:191-195
WriteAndReturn ==
    /\ hpc = "write"
    /\ sol_file' = [exists |-> TRUE,
                    data |-> sol_file.data \o ToFile(h_histogram, B)]
    /\ ret' = "path"
    /\ hpc' = "idle"
    \* the unique_ptrs go out of scope
    /\ input_data' = << >>
    /\ h_histogram' = << >>
    /\ first' =
          IF faultsOn THEN first
          ELSE IF ~first.set
               THEN [set |-> TRUE, n |-> N, b |-> B,
                     out |-> sol_file'.data, others |-> FALSE]
               ELSE IF N = first.n /\ B = first.b THEN first
                    ELSE [first EXCEPT !.others = TRUE]
    /\ UNCHANGED <<N, kernelVars, B, disk, dmem, held, streamUsable, queue,
                   issued, executed, gridSize, sticky, heapJunk, env, faultsOn, smCount, testerVars>>

\* the kernel dereferences a null pointer: input when it reads a sample,
\* histogram when it adds a count
KernelDerefsNull ==
    \/ N > 0 /\ "d_input" \notin held
    \/ /\ "d_histogram" \notin held
       /\ \E x \in 0 .. (B - 1) :
             SumBlocks(gridSize, x, dmem.input, N, gridSize, blockSize) > 0

\* the device executes the next operation of the stream
StreamExec ==
    /\ queue # << >>
    /\ LET k == NextOp(queue)
           op == queue[k]
       IN  /\ executed' = Append(executed, op)
           /\ CASE op = "upload" ->
                     /\ dmem' = [dmem EXCEPT !.input = input_data]
                     /\ queue' = Without(queue, k)
                     /\ UNCHANGED <<h_histogram, sticky>>
                [] op = "memset" ->
                     /\ dmem' = [dmem EXCEPT !.hist = MemsetEffect(@, B)]
                     /\ queue' = Without(queue, k)
                     /\ UNCHANGED <<h_histogram, sticky>>
                [] op = "kernel" ->
                     IF KernelDerefsNull
                     THEN \* undefined: the access traps, or it goes unnoticed
                          \/ /\ sticky' = TRUE
                             /\ queue' = << >>
                             /\ UNCHANGED <<dmem, h_histogram>>
                          \/ /\ queue' = Without(queue, k)
                             /\ UNCHANGED <<dmem, h_histogram, sticky>>
                     ELSE /\ dmem' = [dmem EXCEPT !.hist =
                                 computeHistogramOptimized(dmem.input, @, N, B,
                                                           gridSize, blockSize)]
                          /\ queue' = Without(queue, k)
                          /\ UNCHANGED <<h_histogram, sticky>>
                [] op = "download" ->
                     /\ h_histogram' = dmem.hist
                     /\ queue' = Without(queue, k)
                     /\ UNCHANGED <<dmem, sticky>>
    /\ UNCHANGED <<N, kernelVars, hpc, B, disk, sol_file, input_data, held,
                   streamUsable, issued, gridSize, heapJunk, env, faultsOn, smCount, testerVars,
                   ret, first>>

\* no kernel of SpecKernel is running
KernelIdle ==
    /\ kernel = "none"
    /\ numBins = 0
    /\ gridDim = 0
    /\ blockDim = 0
    /\ input = << >>
    /\ histogram = << >>
    /\ sharedHist = << >>
    /\ localHist = << >>
    /\ values = << >>
    /\ base = << >>
    /\ loopI = << >>
    /\ pc = << >>
    /\ reads = {}
    /\ coop = {}
    /\ oob = {}
    /\ fault = FALSE

InitCompute ==
    /\ N = 0
    /\ KernelIdle
    /\ \E content \in [1 .. MaxN -> FileValues] : HostIdle(content, FALSE)

InitComputeFaults ==
    /\ N = 0
    /\ KernelIdle
    /\ \E content \in [1 .. MaxN -> FileValues] : HostIdle(content, TRUE)

NextCompute ==
    \/ \E n \in 0 .. MaxN, b \in 0 .. (MaxSmallBins + 1),
          e \in {"none"} \cup FaultKinds : ComputeBegin(n, b, e)
    \/ DeviceMalloc
    \/ StreamCreate
    \/ HostRegister
    \/ MemcpyAsyncToDevice
    \/ MemsetAsync
    \/ Launch
    \/ StreamSynchronize1
    \/ MemcpyAsyncToHost
    \/ StreamSynchronize2
    \/ Cleanup
    \/ WriteAndReturn
    \/ StreamExec

\* calls of compute in an environment where nothing fails
SpecCompute == InitCompute /\ [][NextCompute]_vars

\* calls of compute, each of which may meet one failure
SpecComputeFaults == InitComputeFaults /\ [][NextCompute]_vars

\* a step of the host inside a call of compute
HostStep ==
    \/ DeviceMalloc
    \/ StreamCreate
    \/ HostRegister
    \/ MemcpyAsyncToDevice
    \/ MemsetAsync
    \/ Launch
    \/ StreamSynchronize1
    \/ MemcpyAsyncToHost
    \/ StreamSynchronize2
    \/ Cleanup
    \/ WriteAndReturn

\* the host goes on, and the device goes on executing its stream
SpecComputeFair == SpecCompute /\ WF_vars(HostStep) /\ WF_vars(StreamExec)

(***************************************************************************)
(* The launch planner of compute on its own, main.cu:153-172               *)
(***************************************************************************)
\* sample counts: around the multiples of a thread block's share
\* (blockSize * elementsPerThread samples) and at the upper end of int
PlannerCounts ==
    {k * blockSize * elementsPerThread + o :
        k \in 0 .. MaxPlanBlocks, o \in {0, 1, blockSize * elementsPerThread - 1}}
        \cup {MaxInt32 - o : o \in 0 .. MaxPlanBlocks}
        \cup {MaxInt32 - (blockSize * elementsPerThread - 1) - o :
                   o \in 0 .. MaxPlanBlocks}

\* multiprocessor counts: the small ones and the default of main.cu:159
PlannerSMs == (1 .. MaxPlanSMs) \cup {numSMs}

InitPlanner ==
    /\ KernelIdle
    /\ N \in PlannerCounts
    /\ hpc = "plan"
    /\ smCount \in PlannerSMs
    /\ gridSize = 0
    /\ B = 0
    /\ disk = << >>
    /\ sol_file = [exists |-> FALSE, data |-> << >>]
    /\ input_data = << >>
    /\ h_histogram = << >>
    /\ dmem = [input |-> << >>, hist |-> << >>]
    /\ held = {}
    /\ streamUsable = FALSE
    /\ queue = << >>
    /\ issued = << >>
    /\ executed = << >>
    /\ sticky = FALSE
    /\ heapJunk = << >>
    /\ env = "none"
    /\ faultsOn = FALSE
    /\ ret = "none"
    /\ first = NoFirst
    /\ TesterIdle

\* main.cu:168-172
Plan ==
    /\ hpc = "plan"
    /\ \E wide \in BOOLEAN : gridSize' = PlanGrid(N, smCount, wide)
    /\ hpc' = "planned"
    /\ UNCHANGED <<N, kernelVars, B, disk, sol_file, input_data, h_histogram,
                   dmem, held, streamUsable, queue, issued, executed, smCount, testerVars,
                   sticky, heapJunk, env, faultsOn, ret, first>>

NextPlanner == Plan

SpecPlanner == InitPlanner /\ [][NextPlanner]_vars

(***************************************************************************)
(* The tester, tester.cpp:19-114, run after run on one temporary directory *)
(***************************************************************************)
\* a file that holds the n ints of buf
FileOf(buf, n) == [exists |-> TRUE, data |-> ToFile(buf, n)]

\* a buffer of n ints that make_unique zeroed, after read() from a file
ReadInts(file, n) ==
    [k \in 0 .. (n - 1) |->
        IF file.exists /\ k + 1 <= Len(file.data) THEN file.data[k + 1]
        ELSE 0]

\* solution::compute(input_path, n, b) as one step: the ints of the file it
\* returns, data being what it reads from input_path
EngineResult(data, n, b) ==
    LET grid == PlanGrid(n, numSMs, FALSE) IN
    IF grid >= 1 /\ b * SizeofInt <= sharedMemPerBlock
    THEN computeHistogramOptimized(data, Zeros(b), n, b, grid, blockSize)
    ELSE Zeros(b)

\* tester.cpp:13-17: -1 on standard output, msg on standard error, exit(0)
TerminateGracefully(msg) ==
    /\ stdout' = [stdout EXCEPT !.minus1 = TRUE]
    /\ stderr' = msg
    /\ exitStatus' = "success"
    /\ tpc' = "exited"
    /\ t_data' = << >>
    /\ t_hist' = << >>
    /\ heapDamaged' = FALSE

\* the process is killed by a signal
TerminateAbnormally ==
    /\ exitStatus' = "abnormal"
    /\ tpc' = "exited"
    /\ t_data' = << >>
    /\ t_hist' = << >>
    /\ heapDamaged' = FALSE
    /\ UNCHANGED <<stdout, stderr>>

\* tester.cpp:26-31
TesterStart(argc, n, b) ==
    /\ tpc \in {"idle", "exited"}
    /\ reused' = {}
    /\ IF argc < 3
       THEN /\ argN' = 0
            /\ argB' = 0
            /\ stdout' = [minus1 |-> TRUE, time |-> FALSE]
            /\ stderr' = [kind |-> "usage"]
            /\ exitStatus' = "success"
            /\ tpc' = "exited"
       ELSE /\ argN' = n
            /\ argB' = b
            /\ stdout' = NoOutput
            /\ stderr' = NoDiagnostic
            /\ exitStatus' = "none"
            /\ tpc' = "input"
    /\ UNCHANGED <<N, kernelVars, hostVars, inputFiles, solFiles, t_data,
                   t_hist, heapDamaged, student>>

\* tester.cpp:40-59: gen_input
GenInput ==
    /\ tpc = "input"
    /\ IF argN < 0
       THEN \* make_unique<int[]>(size) throws std::bad_array_new_length
            /\ TerminateGracefully([kind |-> "exception"])
            /\ UNCHANGED <<inputFiles, reused>>
       ELSE /\ IF inputFiles[argN].exists
               THEN /\ t_data' = ReadInts(inputFiles[argN], argN)
                    /\ reused' = reused \cup {"input"}
                    /\ UNCHANGED inputFiles
               ELSE \E data \in [0 .. (argN - 1) -> 0 .. (argB - 1)] :
                       /\ t_data' = data
                       /\ inputFiles' =
                              [inputFiles EXCEPT ![argN] = FileOf(data, argN)]
                       /\ UNCHANGED reused
            /\ tpc' = "lookup"
            /\ UNCHANGED <<t_hist, heapDamaged, stdout, stderr, exitStatus>>
    /\ UNCHANGED <<N, kernelVars, hostVars, argN, argB, solFiles, student>>

\* tester.cpp:62-69, and input_data.reset() when the file is there
LookupReference ==
    /\ tpc = "lookup"
    /\ IF solFiles[<<argN, argB>>].exists
       THEN /\ reused' = reused \cup {"reference"}
            /\ t_data' = << >>
            /\ tpc' = "engine"
       ELSE /\ tpc' = "count"
            /\ UNCHANGED <<reused, t_data>>
    /\ UNCHANGED <<N, kernelVars, hostVars, argN, argB, inputFiles, solFiles,
                   t_hist, heapDamaged, student, stdout, stderr, exitStatus>>

\* the samples of main's input_data that are no index of histogram
OutsideBins == {k \in 0 .. (argN - 1) : t_data[k] < 0 \/ t_data[k] >= argB}

\* tester.cpp:70-75. histogram[input_data[i]]++ with input_data[i] outside
\* [0, B) is a store outside the array: it traps, or it goes unnoticed, or it
\* damages the heap's bookkeeping
ReferenceLoop ==
    /\ tpc = "count"
    /\ \/ /\ OutsideBins = {}
          /\ t_hist' = ReferenceCounter(t_data, argN, argB)
          /\ tpc' = "open"
          /\ UNCHANGED <<t_data, heapDamaged, stdout, stderr, exitStatus>>
       \/ /\ OutsideBins # {}
          /\ t_hist' = [x \in 0 .. (argB - 1) |-> CountOf(t_data, argN, x)]
          /\ heapDamaged' \in BOOLEAN
          /\ tpc' = "open"
          /\ UNCHANGED <<t_data, stdout, stderr, exitStatus>>
       \/ /\ OutsideBins # {}
          /\ TerminateAbnormally
    /\ UNCHANGED <<N, kernelVars, hostVars, argN, argB, inputFiles, solFiles,
                   student, reused>>

\* tester.cpp:77: the file is created
ReferenceOpen ==
    /\ tpc = "open"
    /\ solFiles' = [solFiles EXCEPT ![<<argN, argB>>] = FileOf(<< >>, 0)]
    /\ tpc' = "write"
    /\ UNCHANGED <<N, kernelVars, hostVars, argN, argB, inputFiles, t_data,
                   t_hist, heapDamaged, student, stdout, stderr, exitStatus,
                   reused>>

\* tester.cpp:78-81
ReferenceWrite ==
    /\ tpc = "write"
    /\ solFiles' = [solFiles EXCEPT ![<<argN, argB>>] = FileOf(t_hist, argB)]
    /\ t_hist' = << >>
    /\ t_data' = << >>
    /\ tpc' = "engine"
    /\ UNCHANGED <<N, kernelVars, hostVars, argN, argB, inputFiles,
                   heapDamaged, student, stdout, stderr, exitStatus, reused>>

\* an allocation or a release finds the heap's bookkeeping damaged: abort()
HeapAbort ==
    /\ tpc \in {"open", "write", "engine", "verify"}
    /\ heapDamaged
    /\ TerminateAbnormally
    /\ UNCHANGED <<N, kernelVars, hostVars, argN, argB, inputFiles, solFiles,
                   student, reused>>

\* tester.cpp:85
RunEngine ==
    /\ tpc = "engine"
    /\ student' = FileOf(EngineResult(ReadInts(inputFiles[argN], argN),
                                      argN, argB), argB)
    /\ tpc' = "verify"
    /\ UNCHANGED <<N, kernelVars, hostVars, argN, argB, inputFiles, solFiles,
                   t_data, t_hist, heapDamaged, stdout, stderr, exitStatus,
                   reused>>

\* the bins at which two histograms of b ints differ
Mismatches(sol_hist, student_hist, b) ==
    {i \in 0 .. (b - 1) : sol_hist[i] # student_hist[i]}

Lowest(set) == CHOOSE i \in set : \A j \in set : i <= j

\* tester.cpp:90-113
Verify ==
    /\ tpc = "verify"
    /\ LET sol_hist == ReadInts(solFiles[<<argN, argB>>], argB)
           student_hist == ReadInts(student, argB)
           diff == Mismatches(sol_hist, student_hist, argB)
       IN  IF diff # {}
           THEN /\ TerminateGracefully(
                       [kind |-> "mismatch", bin |-> Lowest(diff),
                        expected |-> sol_hist[Lowest(diff)],
                        got |-> student_hist[Lowest(diff)]])
                /\ UNCHANGED student
           ELSE /\ student' = NoFile
                /\ stdout' = [stdout EXCEPT !.time = TRUE]
                /\ exitStatus' = "success"
                /\ tpc' = "exited"
                /\ t_data' = << >>
                /\ t_hist' = << >>
                /\ heapDamaged' = FALSE
                /\ UNCHANGED stderr
    /\ UNCHANGED <<N, kernelVars, hostVars, argN, argB, inputFiles, solFiles,
                   reused>>

InitTester ==
    /\ N = 0
    /\ KernelIdle
    /\ HostIdle(<< >>, FALSE)

NextTester ==
    \/ \E argc \in 2 .. 3, n \in TesterCounts, b \in TesterBins :
          TesterStart(argc, n, b)
    \/ GenInput
    \/ LookupReference
    \/ ReferenceLoop
    \/ ReferenceOpen
    \/ ReferenceWrite
    \/ HeapAbort
    \/ RunEngine
    \/ Verify

SpecTester == InitTester /\ [][NextTester]_vars

(***************************************************************************)
(* Properties of one launch                                                *)
(***************************************************************************)
RECURSIVE SumBins(_, _)
\* hist[0] + .. + hist[k-1]
SumBins(hist, k) == IF k <= 0 THEN 0 ELSE hist[k - 1] + SumBins(hist, k - 1)

\* the samples with a value in [0, numBins)
InRangeSamples == {k \in 0 .. (N - 1) : input[k] >= 0 /\ input[k] < numBins}

\* every bin holds the number of samples equal to it
CountsExact == \A x \in Bins : histogram[x] = CountOf(input, N, x)

\* C2: hierarchical kernel, samples of any value: no access leaves the arrays
\* and nothing fails; once every thread has returned, each bin b holds the
\* number of samples equal to b, and the bins sum up to the number of samples
\* with a value in [0, numBins)
C2_OptimizedDropsOutOfRange ==
    kernel = "optimized" =>
        /\ oob = {}
        /\ ~fault
        /\ KernelDone =>
              /\ CountsExact
              /\ SumBins(histogram, numBins) = Cardinality(InRangeSamples)

\* C2: the hierarchical kernel has completed, several threads took part, and
\* the samples held a negative value, a value >= numBins and a counted value
C2_Witness ==
    /\ kernel = "optimized"
    /\ KernelDone
    /\ gridDim * blockDim > 1
    /\ \E k \in 0 .. (N - 1) : input[k] < 0
    /\ \E k \in 0 .. (N - 1) : input[k] >= numBins
    /\ InRangeSamples # {}

\* C3: samples all in [0, numBins): whichever of the three kernels ran, the
\* global histogram it leaves equals the Reference Counter's
C3_StrategiesEqualReference ==
    (KernelDone /\ InRangeSamples = 0 .. (N - 1)) =>
        histogram = ReferenceCounter(input, N, numBins)

\* C4: shared-reduction kernel: a sample < 0 or >= numBins increments no bin,
\* touches nothing outside the numBins-length arrays and causes no failure
C4_SharedFiltersOutOfRange ==
    kernel = "shared" =>
        /\ oob = {}
        /\ ~fault
        /\ KernelDone => CountsExact

\* the thread-by-thread kernel leaves what the kernel as one stream operation
\* adds to a zeroed histogram
SummaryAgrees ==
    (kernel = "optimized" /\ KernelDone) =>
        histogram = computeHistogramOptimized(input, Zeros(numBins), N, numBins,
                                              gridDim, blockDim)

\* a thread that still has a store of the zero-initialisation to make
StillZeroing(th) == pc[th] = "zero" /\ loopI[th] < numBins

\* a thread that may add to sharedHist: it is in the stride loop or in the
\* fold of its private counters
MayAddToShared(th) == pc[th] \in {"loop", "classify", "fold"} /\ ~AtBarrier2(th)

\* C14: hierarchical kernel, within a block: while a thread is in the
\* stride loop or beyond it, no thread of its block has a zeroing store left;
\* while a thread is in the final loop or has returned, every thread of its
\* block has finished its stride loop and the fold of its private counters;
\* so zeroing stores, atomic adds and final reads of sharedHist never
\* share a phase
C14_BarrierDiscipline ==
    kernel = "optimized" =>
        \A th \in Threads : \A o \in BlockOf(th) :
            /\ PastBarrier1(th) => ~StillZeroing(o)
            /\ PastBarrier2(th) => ~StillZeroing(o) /\ ~MayAddToShared(o)

\* C14: in a block of two threads, one thread has added a sample to
\* sharedHist and waits at the second barrier while the other is about to
\* add one
C14_Witness ==
    /\ kernel = "optimized"
    /\ blockDim = 2
    /\ \E th \in Threads, o \in Threads :
          /\ blockIdx(th) = blockIdx(o)
          /\ AtBarrier2(th)
          /\ pc[o] = "classify"
          /\ \E x \in Bins : sharedHist[blockIdx(th)][x] = 1

\* the reads of the sample buffer at index idx
ReadsAt(idx) == {r \in reads : r[4] = idx}

\* C15: hierarchical kernel, any N, grid and block size: no read of the
\* sample buffer is at an index outside [0, N); no index is read twice; a
\* slot of a batch that was not read holds the padding -1; and when every
\* thread has returned, every index of [0, N) was read exactly once and the
\* padding was counted in no bin
C15_WorkDistribution ==
    kernel = "optimized" =>
        /\ \A r \in reads : r[4] >= 0 /\ r[4] < N
        /\ \A r \in reads : ReadsAt(r[4]) = {r}
        /\ \A th \in DOMAIN pc : \A k \in Slots :
              (pc[th] = "classify" /\ <<th, base[th], k>> \notin
                   {<<r[1], r[2], r[3]>> : r \in reads}) => values[th][k] = -1
        /\ (DOMAIN pc = Threads /\ KernelDone) =>
              /\ \A idx \in 0 .. (N - 1) : Cardinality(ReadsAt(idx)) = 1
              /\ SumBins(histogram, numBins) = Cardinality(InRangeSamples)

\* the threads of block blk that made the iteration for index i of a
\* cooperative loop
CoopThreads(loop, blk, i) ==
    {th \in Threads : blockIdx(th) = blk /\ <<loop, th, i>> \in coop}

RECURSIVE SumShared(_, _)
\* bin x of the sharedHist of the blocks 0 .. blk-1 together
SumShared(blk, x) ==
    IF blk <= 0 THEN 0 ELSE sharedHist[blk - 1][x] + SumShared(blk - 1, x)

\* C16: hierarchical kernel, any numBins and block size: the cooperative
\* loops run over indices of [0, numBins) only and no two threads of a block
\* take the same index; once a thread has passed the first barrier every
\* shared bin of its block was zeroed by exactly one thread; once every
\* thread has returned every shared bin of every block was folded by
\* exactly one thread, and each global bin holds the sum of the blocks'
\* shared bins, the skipped zero bins included
C16_DisjointRanges ==
    kernel = "optimized" =>
        /\ \A r \in coop : r[3] \in Bins
        /\ \A r \in coop :
              CoopThreads(r[1], blockIdx(r[2]), r[3]) = {r[2]}
        /\ \A th \in Threads : PastBarrier1(th) =>
              \A x \in Bins :
                  Cardinality(CoopThreads("zero", blockIdx(th), x)) = 1
        /\ KernelDone =>
              \A x \in Bins :
                  /\ \A blk \in 0 .. (gridDim - 1) :
                        Cardinality(CoopThreads("reduce", blk, x)) = 1
                  /\ histogram[x] = SumShared(gridDim, x)

\* C16: a block of two threads has folded two bins, one with a count and
\* one that is zero and was skipped
C16_Witness ==
    /\ kernel = "optimized"
    /\ KernelDone
    /\ blockDim = 2
    /\ numBins = 2
    /\ \E x \in Bins : histogram[x] > 0
    /\ \E x \in Bins : sharedHist[0][x] = 0

\* a sample index that is not classified yet: it was not read, or it was
\* read into a slot that the thread has not reached
Unclassified(idx) ==
    \/ ReadsAt(idx) = {}
    \/ \E r \in ReadsAt(idx) :
          /\ pc[r[1]] = "classify"
          /\ r[2] = base[r[1]]
          /\ r[3] >= loopI[r[1]]

\* the samples equal to x that are not classified yet
UnclassifiedCount(x) ==
    Cardinality({idx \in 0 .. (N - 1) : input[idx] = x /\ Unclassified(idx)})

\* private counter x of thread th, as long as it is not folded into
\* sharedHist
LocalPending(th, x) ==
    IF x < NumLocalBins
          /\ (pc[th] \in {"zero", "loop", "classify"}
                 \/ (pc[th] = "fold" /\ x >= loopI[th]))
    THEN localHist[th][x] ELSE 0

\* bin x of the sharedHist of block blk, as long as it is not folded into
\* the global histogram
SharedPending(blk, x) ==
    IF CoopThreads("reduce", blk, x) = {} THEN sharedHist[blk][x] ELSE 0

\* the same, a bin that is not zeroed yet taken as 0
SharedPendingZeroed(blk, x) ==
    IF CoopThreads("zero", blk, x) = {} THEN 0 ELSE SharedPending(blk, x)

\* histogram[x] and the private counters x that are not folded yet and
\* the samples equal to x that are not classified yet
OtherTiers(x) ==
    histogram[x]
        + SumBins([th \in Threads |-> LocalPending(th, x)], gridDim * blockDim)
        + UnclassifiedCount(x)

\* a value goes to a private counter only if it is < 32 and < numBins, and
\* to sharedHist by atomicAdd only if it is >= 32 and < numBins
OnePath ==
    \A th \in Threads :
        /\ \A k \in 0 .. (NumLocalBins - 1) :
              localHist[th][k] > 0 => k < numBins
        /\ pc[th] = "classify" =>
              /\ values[th][loopI[th]] >= NumLocalBins
              /\ values[th][loopI[th]] < numBins

\* C17 as stated: hierarchical kernel, in every reachable state and for
\* every bin x: histogram[x], plus the shared bins x not yet folded, plus the
\* private counters x not yet folded, plus the number of samples equal to x
\* not yet classified, is the number of samples equal to x; and a sample goes
\* to exactly one of the private counter and the shared atomic
C17_ConservationEveryState ==
    kernel = "optimized" =>
        /\ \A x \in Bins :
              OtherTiers(x)
                  + SumBins([blk \in 0 .. (gridDim - 1) |-> SharedPending(blk, x)],
                            gridDim)
                  = CountOf(input, N, x)
        /\ OnePath

\* C17 amended: the same sum with a shared bin counted from the moment it
\* is zero-initialised
C17_Conservation ==
    kernel = "optimized" =>
        /\ \A x \in Bins :
              OtherTiers(x)
                  + SumBins([blk \in 0 .. (gridDim - 1) |->
                                 SharedPendingZeroed(blk, x)], gridDim)
                  = CountOf(input, N, x)
        /\ OnePath

\* C17: counts are in three tiers at once: samples that are not classified
\* yet, a shared bin that took an atomic add and is not folded yet, and a
\* private counter that is not folded yet
C17_Witness ==
    /\ kernel = "optimized"
    /\ \E x \in Bins : UnclassifiedCount(x) > 0
    /\ \E blk \in 0 .. (gridDim - 1), x \in Bins :
          SharedPendingZeroed(blk, x) > 0
    /\ \E th \in Threads, x \in Bins : LocalPending(th, x) > 0

\* the values that the next batch of thread th sends to a private counter
\* are indices of localHist
LocalIndexSafe(th) ==
    (pc[th] = "loop" /\ base[th] < N) =>
        \A k \in Slots :
            LET value == Prefetch(base[th], FALSE)[k] IN
            (InRange(value) /\ UsesRegister(value)) =>
                value \in 0 .. (NumLocalBins - 1)

\* C19: hierarchical kernel, any numBins >= 0 (below 32 included) and any
\* sample value: a private counter is accessed at an index in [0, 32) only;
\* sharedHist and the global histogram are accessed at indices in
\* [0, numBins) only, in the cooperative loops, in the atomic add of a sample
\* and in the fold of the private counters, because a private counter with
\* an index >= numBins is always zero
C19_IndexSafety ==
    kernel = "optimized" =>
        /\ oob = {}
        /\ ~fault
        /\ \A r \in coop : r[3] >= 0 /\ r[3] < numBins
        /\ \A th \in Threads :
              /\ LocalIndexSafe(th)
              /\ pc[th] = "classify" => InBounds(values[th][loopI[th]])
              /\ \A k \in 0 .. (NumLocalBins - 1) :
                    k >= numBins => localHist[th][k] = 0

\* C19: a launch with fewer than 32 bins has completed on samples that held
\* a negative value, a value in [numBins, 32) and a counted value
C19_Witness ==
    /\ kernel = "optimized"
    /\ KernelDone
    /\ numBins >= 1
    /\ numBins < NumLocalBins
    /\ \E k \in 0 .. (N - 1) : input[k] >= numBins /\ input[k] < NumLocalBins
    /\ \E k \in 0 .. (N - 1) : input[k] < 0
    /\ \E x \in Bins : histogram[x] > 0

\* thread th was followed for as many batches as StrideBatch follows
FollowedOut(th) ==
    pc[th] = "loop" /\ Cardinality({r[2] : r \in reads}) >= MaxStrideBatches

\* thread th has arrived at both barriers and its stride loop is over; a
\* thread of a launch whose every thread is followed has returned
Terminated(th) ==
    /\ AtBarrier2(th) \/ PastBarrier2(th)
    /\ WholeLaunch => pc[th] = "done"

\* C18: under fair scheduling, every thread of a launch of the hierarchical
\* kernel arrives at both barriers, its stride loop finishes, and the kernel
\* completes; the host's cudaStreamSynchronize calls return
C18_Termination ==
    /\ (kernel = "optimized") ~>
           (\A th \in DOMAIN pc : Terminated(th) \/ FollowedOut(th))
    /\ (hpc = "sync1") ~> (hpc = "download")
    /\ (hpc = "sync2") ~> (hpc = "cleanup")

(***************************************************************************)
(* Properties of solution::compute                                         *)
(***************************************************************************)
\* the last call returned sol_path
Returned == hpc = "idle" /\ ret = "path"

\* the first n ints of the input file, as a sample array
FileSamples(n) == [k \in 0 .. (n - 1) |-> disk[k + 1]]

IsPrefix(a, b) == Len(a) <= Len(b) /\ \A k \in 1 .. Len(a) : a[k] = b[k]

Ops(q) == {q[k] : k \in 1 .. Len(q)}

\* C1: N >= 0, B >= 1, every sample in [0, B): the histogram that compute
\* writes equals, bin for bin, the Reference Counter's
C1_ComputeEqualsReference ==
    (Returned /\ B >= 1 /\ \A k \in 1 .. N : disk[k] >= 0 /\ disk[k] < B) =>
        sol_file.data = ToFile(ReferenceCounter(FileSamples(N), N, B), B)

\* C5: a call with the arguments of the first call writes the histogram the
\* first call wrote, whatever calls were made in between
C5_Idempotent ==
    (Returned /\ first.set /\ N = first.n /\ B = first.b) =>
        sol_file.data = first.out

\* C5: the first call's arguments were used again after a call with other
\* arguments, and the histogram has a count in it
C5_Witness ==
    /\ Returned
    /\ first.set
    /\ first.others
    /\ N = first.n
    /\ B = first.b
    /\ \E k \in 1 .. Len(sol_file.data) : sol_file.data[k] > 0

\* C6: N = 0: the planner's grid size is 0, no kernel runs, and the file
\* compute writes holds exactly B zeros
C6_EmptyInputAllZero ==
    (Returned /\ N = 0) =>
        /\ gridSize = 0
        /\ "kernel" \notin Ops(issued)
        /\ sol_file.data = [k \in 1 .. B |-> 0]

\* C6: a call with N = 0 and B >= 2 returned after a call that wrote counts
C6_Witness ==
    /\ Returned
    /\ N = 0
    /\ B >= 2
    /\ first.set
    /\ \E k \in 1 .. Len(first.out) : first.out[k] > 0

\* C7: B * sizeof(int) above the device's limit: no device work (allocation,
\* upload, zero-initialisation, launch) is attempted and compute does not
\* return a histogram file
C7_OverBudgetFailsFirst ==
    B * SizeofInt > sharedMemPerBlock =>
        /\ held = {}
        /\ issued = << >>
        /\ ret # "path"

\* C8: when the input file cannot be read, or an allocation or a transfer
\* fails, compute does not return the path of a histogram file
C8_FailuresSurface == Returned => env = "none"

\* C9: the stream executes in issue order; the kernel runs after the upload
\* and the zero-initialisation; the download is issued when everything
\* issued before it has executed; the host reaches the cleanup and the write
\* of the output file when the download has executed
C9_StreamOrder ==
    /\ IsPrefix(executed, issued)
    /\ \A k \in 1 .. Len(executed) :
          executed[k] = "kernel" =>
              {"upload", "memset"} \subseteq {executed[j] : j \in 1 .. (k - 1)}
    /\ "download" \in Ops(issued) => Ops(issued) \ {"download"} \subseteq Ops(executed)
    /\ (hpc \in {"cleanup", "write"} \/ Returned) => "download" \in Ops(executed)

\* C9: a call whose kernel ran has returned a histogram with a count in it
C9_Witness ==
    /\ Returned
    /\ executed = <<"upload", "memset", "kernel", "download">>
    /\ \E k \in 1 .. Len(sol_file.data) : sol_file.data[k] > 0

\* C10: when a call has returned or thrown, nothing it acquired is held
C10_AllReleased == hpc = "idle" => held = {}

(***************************************************************************)
(* Properties of the launch planner                                        *)
(***************************************************************************)
\* ceil(a / d) in exact arithmetic, a >= 0, d >= 1
ExactCeil(a, d) == (a \div d) + (IF a % d = 0 THEN 0 ELSE 1)

\* min(ceil(s * 2048 / 1024), ceil(n / (1024 * 12))) in exact arithmetic
ExactUnits(n, s) ==
    LET a == ExactCeil(s * saturation, blockSize)
        b == ExactCeil(n, blockSize * elementsPerThread)
    IN  IF a < b THEN a ELSE b

\* C11: for every sample count N >= 0 that an int holds and every number of
\* multiprocessors >= 1, the planner's grid size equals
\* min(ceil(S * 2048 / 1024), ceil(N / (1024 * 12))) of exact arithmetic, and
\* it is >= 1 when N >= 1
C11_PlannerExact ==
    hpc = "planned" =>
        /\ gridSize = ExactUnits(N, smCount)
        /\ N >= 1 => gridSize >= 1

(***************************************************************************)
(* Properties of the tester                                                *)
(***************************************************************************)
\* compute as one step of the tester writes what the calls of SpecCompute
\* write
EngineAgrees ==
    Returned => sol_file.data = ToFile(EngineResult(FileSamples(N), N, B), B)

\* the reference file and the input file of the run
RunReference == ReadInts(solFiles[<<argN, argB>>], argB)
RunInput == ReadInts(inputFiles[argN], argN)

\* C12: a run of the tester ends with exit status 0; after a handled failure
\* (too few arguments, an exception, a mismatch) -1 is on standard output, a
\* diagnostic is on standard error and no execution time was printed; the
\* diagnostic of a mismatch names a bin at which the reference and the
\* computed count differ, with both counts; the execution time is printed
\* only when all bins match
C12_ExitContract ==
    tpc = "exited" =>
        /\ exitStatus = "success"
        /\ stdout.minus1 <=> stderr.kind # "none"
        /\ stdout.minus1 => ~stdout.time
        /\ stderr.kind = "mismatch" =>
              /\ stderr.bin \in 0 .. (argB - 1)
              /\ stderr.expected = RunReference[stderr.bin]
              /\ stderr.got = ReadInts(student, argB)[stderr.bin]
              /\ stderr.expected # stderr.got
        /\ stdout.time =>
              RunReference = EngineResult(RunInput, argN, argB)

\* C13: whatever runs came before, the reference histogram that a run
\* verifies against is the sequential count of the input file the engine
\* reads in the run, and a run whose engine wrote that count reports no
\* mismatch
C13_CacheConsistent ==
    LET counts == [x \in 0 .. (argB - 1) |-> CountOf(RunInput, argN, x)] IN
    /\ tpc = "verify" => RunReference = counts
    /\ (tpc = "exited" /\ stderr.kind = "mismatch") =>
          ReadInts(student, argB) # counts

====
